---- MODULE Spec2Model ----
(***************************************************************************)
(* Level-3 order book engine (src/src/orderbook.rs): the sequenced event   *)
(* processor OrderbookL3::process over two price-sorted vectors of FIFO    *)
(* order deques, the order-id directory, the optional outlier filter and   *)
(* stats, and the merged order iterator.                                   *)
(*                                                                         *)
(* Prices and sizes are f64 in the source; the model draws them from small *)
(* integer ranges, on which every comparison and product used here is      *)
(* exact. NaN is the one float that is not a number: it is the value NaN.  *)
(* Vector and deque positions are 0-based as in the source; TLA+ sequences *)
(* are 1-based, so position p is element p + 1.                            *)
(***************************************************************************)
EXTENDS Integers, Sequences, FiniteSets, TLC

\* ----------------------------------------------------------------- bounds
MaxSeq   == 3      \* sequence numbers of events are drawn from 1..MaxSeq
MaxPrice == 2      \* prices of events are drawn from 0..MaxPrice, and NaN
MaxSize  == 1      \* sizes of orders from 1..MaxSize, new sizes from 0..MaxSize
MaxCalls == 3      \* process is called at most MaxCalls times in a run
RingCap  == 1      \* n of OrderbookBuilder::last_n_events(n)
MaxSequencedCalls == 4   \* calls of process in a run of a sequenced stream
MaxRedeliveredCalls == 3 \* calls of process in a run with redelivered events

Ids        == {"A", "B", "C"}
NaN        == 0 - 1
Prices     == 0 .. MaxPrice
Sizes      == 1 .. MaxSize
NewSizes   == 0 .. MaxSize
Sequences_ == 1 .. MaxSeq

\* ------------------------------------------------------ program constants
DEFAULT_OUTLIER_FACTOR_PCT == 50     \* DEFAULT_OUTLIER_FACTOR = 0.50, in percent
DEFAULT_BEST_BID == 0
DEFAULT_BEST_ASK == 0

\* ------------------------------------------------------------ data model
None    == [some |-> FALSE]
Some(x) == [some |-> TRUE, val |-> x]

OrderType   == {"Limit", "Market"}
AtomicOrder == [id : Ids, price : Prices \cup {NaN}, size : Sizes]
Order       == [tag : {"Bid", "Ask"}, order : AtomicOrder, otype : OrderType]

ReceivedEvents == [kind : {"Received"}, order : Order, seq : Sequences_]
OpenEvents     == [kind : {"Open"}, order : Order, seq : Sequences_]
DoneEvents     == [kind : {"Done"}, id : Ids, seq : Sequences_]
ChangeEvents   == [kind : {"Change"}, id : Ids, new_size : NewSizes, seq : Sequences_]
OrderbookEvent == ReceivedEvents \cup OpenEvents \cup DoneEvents \cup ChangeEvents

\* OrderbookEvent::sequence
sequence(event) == event.seq

\* Order::id, Order::price, Order::side, Order::unwrap
order_id(order)    == order.order.id
order_price(order) == order.order.price
order_side(order)  == IF order.tag = "Bid" THEN "Buy" ELSE "Sell"

\* Result<(), OrderbookError>: the kind of the result, Ok or the error variant
Ok       == "Ok"
ErrKinds == {"OutOfSequence", "OrderNotFoundInMap", "OrderNotFoundInDeque",
             "MissingOrderDeque", "NanFloat", "Outlier"}

\* NonNan::build: None for NaN
NonNan_build(val) == IF val = NaN THEN None ELSE Some(val)

\* Ord for NonNan: "Less", "Equal" or "Greater"
NonNan_cmp(a, b) == IF a < b THEN "Less" ELSE IF a > b THEN "Greater" ELSE "Equal"

\* std::cmp::Reverse: the ordering of the wrapped values, reversed
Reverse_cmp(a, b) == NonNan_cmp(b, a)

\* ------------------------------------------------------------ OrderDeque
\* OrderDeque::build: a new level holding the one order
OrderDeque_build(order) == [deque |-> <<order>>, price |-> order.price]

\* OrderDeque::push_back, were the order put at the front
OrderDeque_push_back_Front(od, order) == [od EXCEPT !.deque = <<order>> \o @]

\* OrderDeque::push_back
OrderDeque_push_back(od, order) == [od EXCEPT !.deque = Append(@, order)]

\* VecDeque::remove(idx) as used by OrderDeque::remove: the order at position
\* idx is taken out; None (and no change) when idx is out of bounds
OrderDeque_remove(od, order_idx) ==
    IF order_idx < Len(od.deque)
    THEN [removed |-> Some(od.deque[order_idx + 1]),
          od |-> [od EXCEPT !.deque =
                     [i \in 1 .. (Len(od.deque) - 1) |->
                         IF i <= order_idx THEN od.deque[i] ELSE od.deque[i + 1]]]]
    ELSE [removed |-> None, od |-> od]

\* iter().position(|order| order.id == *order_id): first position holding the id
OrderDeque_position(od, id) ==
    IF \E i \in 1 .. Len(od.deque) : od.deque[i].id = id
    THEN Some((CHOOSE i \in 1 .. Len(od.deque) :
                  /\ od.deque[i].id = id
                  /\ \A j \in 1 .. (i - 1) : od.deque[j].id # id) - 1)
    ELSE None

\* the order at the position idx that position gave, if any
OrderDeque_at(od, idx) == IF idx.some THEN Some(od.deque[idx.val + 1]) ELSE None

\* OrderDeque::get_ref
OrderDeque_get_ref(od, id) == OrderDeque_at(od, OrderDeque_position(od, id))

RECURSIVE SumSizes(_)
SumSizes(q) == IF q = <<>> THEN 0 ELSE SumSizes(Tail(q)) + Head(q).size

\* OrderDeque::size and OrderDeque::len
OrderDeque_size(od) == SumSizes(od.deque)
OrderDeque_len(od)  == Len(od.deque)

\* Vec::insert(pos, x) and Vec::remove(pos)
Vec_insert(v, pos, x) ==
    [i \in 1 .. (Len(v) + 1) |->
        IF i <= pos THEN v[i] ELSE IF i = pos + 1 THEN x ELSE v[i - 1]]
Vec_remove(v, pos) ==
    [i \in 1 .. (Len(v) - 1) |-> IF i <= pos THEN v[i] ELSE v[i + 1]]


\* ----------------------------------------------------- SimpleOutlierFilter
\* SimpleOutlierFilter::new; the factor is held in percent
SimpleOutlierFilter_new(outlier_factor) ==
    [outlier_factor |-> IF outlier_factor.some THEN outlier_factor.val
                        ELSE DEFAULT_OUTLIER_FACTOR_PCT,
     outlier_ids |-> {},
     outliers_encountered |-> 0]

\* SimpleOutlierFilter::check, were a price at the cutoff an outlier too
SimpleOutlierFilter_check_AtCutoff(filter, order, top_level) ==
    IF order_side(order) = "Buy"
    THEN IF top_level[1] = DEFAULT_BEST_BID
         THEN [filter |-> filter, res |-> Ok]
         ELSE IF order_price(order) * 100 <= top_level[1] * (100 - filter.outlier_factor)
              THEN [filter |-> [filter EXCEPT !.outlier_ids = @ \cup {order_id(order)}],
                    res |-> "Outlier"]
              ELSE [filter |-> filter, res |-> Ok]
    ELSE IF top_level[2] = DEFAULT_BEST_ASK
         THEN [filter |-> filter, res |-> Ok]
         ELSE IF order_price(order) * 100 >= top_level[2] * (100 + filter.outlier_factor)
              THEN [filter |-> [filter EXCEPT !.outlier_ids = @ \cup {order_id(order)}],
                    res |-> "Outlier"]
              ELSE [filter |-> filter, res |-> Ok]

\* SimpleOutlierFilter::check: [filter, res]. The comparisons
\* price < top * (1 - f) and price > top * (1 + f) are taken times 100.
SimpleOutlierFilter_check(filter, order, top_level) ==
    IF order_side(order) = "Buy"
    THEN IF top_level[1] = DEFAULT_BEST_BID
         THEN [filter |-> filter, res |-> Ok]
         ELSE IF order_price(order) * 100 < top_level[1] * (100 - filter.outlier_factor)
              THEN [filter |-> [filter EXCEPT !.outlier_ids = @ \cup {order_id(order)}],
                    res |-> "Outlier"]
              ELSE [filter |-> filter, res |-> Ok]
    ELSE IF top_level[2] = DEFAULT_BEST_ASK
         THEN [filter |-> filter, res |-> Ok]
         ELSE IF order_price(order) * 100 > top_level[2] * (100 + filter.outlier_factor)
              THEN [filter |-> [filter EXCEPT !.outlier_ids = @ \cup {order_id(order)}],
                    res |-> "Outlier"]
              ELSE [filter |-> filter, res |-> Ok]

\* ---------------------------------------------------------- OrderbookStats
\* OrderbookStats::new
OrderbookStats_new(track_errors) ==
    [events_processed |-> 0,
     events_not_processed |-> 0,
     error_msgs |-> IF track_errors THEN Some(<<>>) ELSE None]

\* ------------------------------------------------------------- OrderbookL3
\* HashMap::insert and HashMap::remove on order_id_map
Map_insert(m, k, v) == [x \in (DOMAIN m) \cup {k} |-> IF x = k THEN v ELSE m[x]]
Map_remove(m, k)    == [x \in (DOMAIN m) \ {k} |-> m[x]]

\* OrderbookL3::num_bid_levels, num_ask_levels
num_bid_levels(ob) == Len(ob.bids)
num_ask_levels(ob) == Len(ob.asks)

RECURSIVE SumLens(_)
SumLens(v) == IF v = <<>> THEN 0 ELSE OrderDeque_len(Head(v)) + SumLens(Tail(v))

\* bid_count, were it the number of the levels
bid_count_CountsLevels(ob) == Len(ob.bids)

\* OrderbookL3::bid_count, ask_count
bid_count(ob) == SumLens(ob.bids)
ask_count(ob) == SumLens(ob.asks)

\* OrderbookL3::best_bid, best_ask, top_level
best_bid(ob)  == IF ob.bids # <<>> THEN ob.bids[1].price ELSE DEFAULT_BEST_BID
best_ask(ob)  == IF ob.asks # <<>> THEN ob.asks[1].price ELSE DEFAULT_BEST_ASK
top_level(ob) == <<best_bid(ob), best_ask(ob)>>

\* OrderbookL3::panic_button: TRUE when the call panics
panic_button_fires(ob) ==
    /\ ob.panic_button
    /\ best_bid(ob) # 0
    /\ best_ask(ob) # 0
    /\ best_bid(ob) > best_ask(ob)

\* BoundedVecDeque::push_back: the oldest event gives way at max_len
BoundedVecDeque_push_back(ring, event) ==
    [ring EXCEPT !.buf = IF ring.max_len = 0 THEN @
                         ELSE IF Len(@) >= ring.max_len THEN Append(Tail(@), event)
                         ELSE Append(@, event)]

\* OrderbookL3::store_event
store_event(ob, event) ==
    IF ob.last_n_events.some
    THEN [ob EXCEPT !.last_n_events = Some(BoundedVecDeque_push_back(@.val, event))]
    ELSE ob

\* update_sequence_and_stats, were an Outlier result counted like the other
\* errors: last_sequence stays
update_sequence_and_stats_OutlierNotConsumed(ob, result, seq) ==
    IF result = Ok
    THEN [ob EXCEPT !.last_sequence = seq,
                    !.stats = IF @.some
                              THEN Some([@.val EXCEPT !.events_processed = @ + 1])
                              ELSE @]
    ELSE [ob EXCEPT !.stats =
             IF @.some
             THEN Some([@.val EXCEPT !.events_not_processed = @ + 1])
             ELSE @]

\* update_sequence_and_stats, were it to advance last_sequence on every error
update_sequence_and_stats_AdvanceOnError(ob, result, seq) ==
    [ob EXCEPT !.last_sequence = seq,
               !.stats = IF @.some
                         THEN IF result = Ok
                              THEN Some([@.val EXCEPT !.events_processed = @ + 1])
                              ELSE Some([@.val EXCEPT !.events_not_processed = @ + 1])
                         ELSE @]

\* update_sequence_and_stats, were an Outlier result counted by neither counter
update_sequence_and_stats_OutlierUncounted(ob, result, seq) ==
    IF result = Ok
    THEN [ob EXCEPT !.last_sequence = seq,
                    !.stats = IF @.some
                              THEN Some([@.val EXCEPT !.events_processed = @ + 1])
                              ELSE @]
    ELSE IF result = "Outlier"
    THEN [ob EXCEPT !.last_sequence = seq]
    ELSE [ob EXCEPT !.stats =
             IF @.some
             THEN Some([@.val EXCEPT
                     !.events_not_processed = @ + 1,
                     !.error_msgs =
                         IF @.some
                         THEN Some(Append(@.val, [sequence |-> ob.last_sequence,
                                                  error |-> result]))
                         ELSE @])
             ELSE @]

\* update_sequence_and_stats, were the sequence of an event that was dispatched
\* and failed consumed like that of an outlier
update_sequence_and_stats_FailedConsumed(ob, result, seq) ==
    IF result = Ok
    THEN [ob EXCEPT !.last_sequence = seq,
                    !.stats = IF @.some
                              THEN Some([@.val EXCEPT !.events_processed = @ + 1])
                              ELSE @]
    ELSE [ob EXCEPT !.last_sequence = IF result = "OutOfSequence" THEN @ ELSE seq,
                    !.stats = IF @.some
                              THEN Some([@.val EXCEPT !.events_not_processed = @ + 1])
                              ELSE @]

\* OrderbookL3::update_sequence_and_stats
update_sequence_and_stats(ob, result, seq) ==
    IF result = Ok
    THEN [ob EXCEPT !.last_sequence = seq,
                    !.stats = IF @.some
                              THEN Some([@.val EXCEPT !.events_processed = @ + 1])
                              ELSE @]
    ELSE IF result = "Outlier"
    THEN [ob EXCEPT !.last_sequence = seq,
                    !.stats = IF @.some
                              THEN Some([@.val EXCEPT !.events_not_processed = @ + 1])
                              ELSE @]
    ELSE [ob EXCEPT !.stats =
             IF @.some
             THEN Some([@.val EXCEPT
                     !.events_not_processed = @ + 1,
                     !.error_msgs =
                         IF @.some
                         THEN Some(Append(@.val, [sequence |-> ob.last_sequence,
                                                  error |-> result]))
                         ELSE @])
             ELSE @]

\* OrderbookL3::nan_check
nan_check(order) == NonNan_build(order_price(order))

\* the book and the result after SimpleOutlierFilter::check gave c
filter_checked(ob, c) ==
    [ob |-> [ob EXCEPT !.outlier_filter = Some(c.filter)], res |-> c.res]

\* OrderbookL3::check_new_outlier: [ob, res]
check_new_outlier(ob, order) ==
    IF ob.outlier_filter.some
    THEN filter_checked(ob, SimpleOutlierFilter_check(ob.outlier_filter.val, order,
                                                       top_level(ob)))
    ELSE [ob |-> ob, res |-> Ok]

\* check_old_outlier, were no id ever found in the filter's set
check_old_outlier_Never(ob, id) == FALSE

\* OrderbookL3::check_old_outlier
check_old_outlier(ob, id) ==
    IF ob.outlier_filter.some THEN id \in ob.outlier_filter.val.outlier_ids ELSE FALSE

\* remove_old_outlier, were the id left in the filter's set
remove_old_outlier_Keeps(ob, id) == ob

\* OrderbookL3::remove_old_outlier
remove_old_outlier(ob, id) ==
    IF ob.outlier_filter.some
    THEN [ob EXCEPT !.outlier_filter = Some([@.val EXCEPT !.outlier_ids = @ \ {id}])]
    ELSE ob

RECURSIVE binary_search_by_key_NoReverse(_, _, _, _, _)
\* binary_search_by_key, were the keys of the bids not wrapped in Reverse
binary_search_by_key_NoReverse(v, side, price, left, right) ==
    IF left >= right
    THEN [found |-> FALSE, pos |-> left]
    ELSE IF NonNan_cmp(v[left + ((right - left) \div 2) + 1].price, price) = "Less"
    THEN binary_search_by_key_NoReverse(v, side, price,
                                        left + ((right - left) \div 2) + 1, right)
    ELSE IF NonNan_cmp(v[left + ((right - left) \div 2) + 1].price, price) = "Greater"
    THEN binary_search_by_key_NoReverse(v, side, price,
                                        left, left + ((right - left) \div 2))
    ELSE [found |-> TRUE, pos |-> left + ((right - left) \div 2)]

\* the comparison of a deque's key with the key searched for: both wrapped in
\* Reverse for the bids, as they are for the asks
key_cmp(side, deque_price, price) ==
    IF side = "Buy" THEN Reverse_cmp(deque_price, price) ELSE NonNan_cmp(deque_price, price)

\* slice::binary_search_by_key over a side's vector: the probe loop of the
\* standard library on the window [left, right), mid = left + size / 2.
\* [found, pos]: Ok(pos) or Err(pos), the insertion point.
RECURSIVE binary_search_by_key(_, _, _, _, _)
binary_search_by_key(v, side, price, left, right) ==
    IF left >= right
    THEN [found |-> FALSE, pos |-> left]
    ELSE IF key_cmp(side, v[left + ((right - left) \div 2) + 1].price, price) = "Less"
    THEN binary_search_by_key(v, side, price, left + ((right - left) \div 2) + 1, right)
    ELSE IF key_cmp(side, v[left + ((right - left) \div 2) + 1].price, price) = "Greater"
    THEN binary_search_by_key(v, side, price, left, left + ((right - left) \div 2))
    ELSE [found |-> TRUE, pos |-> left + ((right - left) \div 2)]

side_vec(ob, side) == IF side = "Buy" THEN ob.bids ELSE ob.asks

\* the side's vector put back into the book
with_side_vec(ob, side, v) ==
    IF side = "Buy" THEN [ob EXCEPT !.bids = v] ELSE [ob EXCEPT !.asks = v]

\* the tuple (side, pos, Ok(deque) or Err(MissingOrderDeque)) made of the
\* search's result r: [side, pos, found]
OrderDequePos(side, r) == [side |-> side, pos |-> r.pos, found |-> r.found]

\* OrderbookL3::get_deque_pos and get_deque_pos_mut
get_deque_pos(ob, side, price) ==
    OrderDequePos(side, binary_search_by_key(side_vec(ob, side), side, price,
                                             0, Len(side_vec(ob, side))))

\* Ok((side, pos, deque)) of get_deque_pos_by_id: [res, side, pos, found]
OkOrderDequePos(p) == [res |-> Ok, side |-> p.side, pos |-> p.pos, found |-> p.found]

\* get_deque_pos_by_id, were every id missing from the map taken for an outlier
\* when the filter is enabled
get_deque_pos_by_id_MissingIsOutlier(ob, id) ==
    IF id \in DOMAIN ob.order_id_map
    THEN OkOrderDequePos(get_deque_pos(ob, ob.order_id_map[id].side,
                                       ob.order_id_map[id].price))
    ELSE IF ob.outlier_filter.some
         THEN [res |-> "Outlier"]
         ELSE [res |-> "OrderNotFoundInMap"]

\* OrderbookL3::get_deque_pos_by_id and get_deque_pos_mut_by_id:
\* [res, side, pos, found]; side, pos and found only when res is Ok
get_deque_pos_by_id(ob, id) ==
    IF id \in DOMAIN ob.order_id_map
    THEN OkOrderDequePos(get_deque_pos(ob, ob.order_id_map[id].side,
                                       ob.order_id_map[id].price))
    ELSE IF check_old_outlier(ob, id)
         THEN [res |-> "Outlier"]
         ELSE [res |-> "OrderNotFoundInMap"]

\* insert_at, were a new deque put at the end of its side's vector
insert_at_Back(ob, order, dp) ==
    [ob |-> with_side_vec(ob, dp.side,
                IF dp.found
                THEN [side_vec(ob, dp.side) EXCEPT
                         ![dp.pos + 1] = OrderDeque_push_back(@, order)]
                ELSE Append(side_vec(ob, dp.side), OrderDeque_build(order))),
     res |-> Ok]

\* the match on maybe_deque of insert, dp being what get_deque_pos_mut gave:
\* the order is pushed to the back of the deque found, or a new deque holding
\* it is inserted at the search's position
insert_at(ob, order, dp) ==
    [ob |-> with_side_vec(ob, dp.side,
                IF dp.found
                THEN [side_vec(ob, dp.side) EXCEPT
                         ![dp.pos + 1] = OrderDeque_push_back(@, order)]
                ELSE Vec_insert(side_vec(ob, dp.side), dp.pos, OrderDeque_build(order))),
     res |-> Ok]

\* insert_mapped, were the deque of every order sought among the bids
insert_mapped_AmongBids(ob, order, price) ==
    insert_at(ob, order.order, get_deque_pos(ob, "Buy", price))

\* the match on the order of insert, ob holding the order's id in order_id_map
insert_mapped(ob, order, price) ==
    insert_at(ob, order.order, get_deque_pos(ob, order_side(order), price))

\* insert_checked, were the entry of an id already in order_id_map kept
insert_checked_KeepsMapEntry(chk, order, price) ==
    IF chk.res # Ok THEN chk
    ELSE insert_mapped([chk.ob EXCEPT !.order_id_map =
                           IF order.order.id \in DOMAIN @ THEN @
                           ELSE Map_insert(@, order.order.id,
                                           [side |-> order_side(order),
                                            price |-> price])],
                       order, price)

\* insert after its two checks, chk being what check_new_outlier gave
insert_checked(chk, order, price) ==
    IF chk.res # Ok THEN chk
    ELSE insert_mapped([chk.ob EXCEPT !.order_id_map =
                           Map_insert(@, order.order.id,
                                      [side |-> order_side(order), price |-> price])],
                       order, price)

\* insert after nan_check gave price
insert_priced(ob, order, price) ==
    IF ~price.some THEN [ob |-> ob, res |-> "NanFloat"]
    ELSE insert_checked(check_new_outlier(ob, order), order, price.val)

\* OrderbookL3::insert: [ob, res]
insert(ob, order) == insert_priced(ob, order, nan_check(order))

\* delete_deque_if_empty, were it to leave the empty deque in place
delete_deque_if_empty_Never(ob, side, idx) == ob

\* delete_deque_if_empty, were the deque deleted whether or not it is empty
delete_deque_if_empty_Always(ob, side, idx) ==
    with_side_vec(ob, side, Vec_remove(side_vec(ob, side), idx))

\* OrderbookL3::delete_deque_if_empty
delete_deque_if_empty(ob, side, idx) ==
    IF side_vec(ob, side)[idx + 1].deque = <<>>
    THEN with_side_vec(ob, side, Vec_remove(side_vec(ob, side), idx))
    ELSE ob

\* remove_at, were it to leave the id in order_id_map
remove_at_KeepsMapEntry(ob, id, side, idx, rm) ==
    IF rm.removed.some
    THEN [ob |-> delete_deque_if_empty(
                     with_side_vec(ob, side,
                         [side_vec(ob, side) EXCEPT ![idx + 1] = rm.od]),
                     side, idx),
          res |-> Ok]
    ELSE [ob |-> ob, res |-> "OrderNotFoundInDeque"]

\* the match on deque.remove(idx) of remove, rm being what it gave
remove_at(ob, id, side, idx, rm) ==
    IF rm.removed.some
    THEN [ob |-> delete_deque_if_empty(
                     [with_side_vec(ob, side,
                          [side_vec(ob, side) EXCEPT ![idx + 1] = rm.od])
                         EXCEPT !.order_id_map = Map_remove(@, id)],
                     side, idx),
          res |-> Ok]
    ELSE [ob |-> ob, res |-> "OrderNotFoundInDeque"]

\* the match on get_deque_pos_mut_by_id of remove, dp being what it gave. idx
\* is the position in dp, the position of the deque in its side's vector, and
\* it is this idx that deque.remove(idx) is called with.
remove_pos(ob, id, dp) ==
    IF dp.res = Ok
    THEN IF ~dp.found THEN [ob |-> ob, res |-> "MissingOrderDeque"]
         ELSE remove_at(ob, id, dp.side, dp.pos,
                        OrderDeque_remove(side_vec(ob, dp.side)[dp.pos + 1], dp.pos))
    ELSE IF dp.res = "Outlier"
    THEN [ob |-> remove_old_outlier(ob, id), res |-> "Outlier"]
    ELSE [ob |-> ob, res |-> dp.res]

\* OrderbookL3::remove: [ob, res]
remove(ob, id) == remove_pos(ob, id, get_deque_pos_by_id(ob, id))

\* the match on deque.get_ref(order_id) of get_order_ref, o being what it gave
order_found(o) ==
    IF o.some THEN [res |-> Ok, order |-> o.val] ELSE [res |-> "OrderNotFoundInDeque"]

\* get_order_ref after get_deque_pos_by_id gave dp
get_order_ref_pos(ob, id, dp) ==
    IF dp.res # Ok THEN [res |-> dp.res]
    ELSE IF ~dp.found THEN [res |-> "MissingOrderDeque"]
    ELSE order_found(OrderDeque_get_ref(side_vec(ob, dp.side)[dp.pos + 1], id))

\* OrderbookL3::get_order_ref: [res, order]; order only when res is Ok
get_order_ref(ob, id) == get_order_ref_pos(ob, id, get_deque_pos_by_id(ob, id))

\* update_at, were the new size given to every order of the deque
update_at_WholeDeque(ob, side, pos, idx, new_size) ==
    IF idx.some
    THEN [ob |-> with_side_vec(ob, side,
                    [side_vec(ob, side) EXCEPT
                        ![pos + 1].deque = [j \in DOMAIN @ |-> [@[j] EXCEPT !.size = new_size]]]),
          res |-> Ok]
    ELSE [ob |-> ob, res |-> "OrderNotFoundInDeque"]

\* the match on get_order_mut of update, idx being the position deque.get_mut
\* found the id at
update_at(ob, side, pos, idx, new_size) ==
    IF idx.some
    THEN [ob |-> with_side_vec(ob, side,
                    [side_vec(ob, side) EXCEPT
                        ![pos + 1].deque[idx.val + 1].size = new_size]),
          res |-> Ok]
    ELSE [ob |-> ob, res |-> "OrderNotFoundInDeque"]

\* update after get_deque_pos_mut_by_id gave dp
update_pos(ob, id, new_size, dp) ==
    IF dp.res # Ok THEN [ob |-> ob, res |-> dp.res]
    ELSE IF ~dp.found THEN [ob |-> ob, res |-> "MissingOrderDeque"]
    ELSE update_at(ob, dp.side, dp.pos,
                   OrderDeque_position(side_vec(ob, dp.side)[dp.pos + 1], id), new_size)

\* OrderbookL3::update with get_order_mut: [ob, res]
update(ob, id, new_size) == update_pos(ob, id, new_size, get_deque_pos_by_id(ob, id))

\* dispatch, were a Received order inserted as an Open one is
dispatch_ReceivedRests(ob, event) ==
    IF event.kind \in {"Received", "Open"} THEN insert(ob, event.order)
    ELSE IF event.kind = "Done" THEN remove(ob, event.id)
    ELSE update(ob, event.id, event.new_size)

\* the match on the event of OrderbookL3::process: [ob, res]
dispatch(ob, event) ==
    IF event.kind = "Received" THEN [ob |-> ob, res |-> Ok]
    ELSE IF event.kind = "Open" THEN insert(ob, event.order)
    ELSE IF event.kind = "Done" THEN remove(ob, event.id)
    ELSE update(ob, event.id, event.new_size)

\* sequenced, were the event dispatched whatever its sequence
sequenced_Unchecked(ob, event) == dispatch(ob, event)

\* sequenced, were an event whose sequence equals last_sequence dispatched too
sequenced_AcceptsEqual(ob, event) ==
    IF NonNan_cmp(sequence(event), ob.last_sequence) # "Less"
    THEN dispatch(ob, event)
    ELSE [ob |-> ob, res |-> "OutOfSequence"]

\* the match on sequence.cmp(&self.last_sequence) of process: [ob, res]
sequenced(ob, event) ==
    IF NonNan_cmp(sequence(event), ob.last_sequence) = "Greater"
    THEN dispatch(ob, event)
    ELSE [ob |-> ob, res |-> "OutOfSequence"]

\* the end of process: the panic button on the book, res being the result
panic_checked(ob, res) == [ob |-> ob, res |-> res, panic |-> panic_button_fires(ob)]

\* process after the match gave r for the event of sequence seq
processed(r, seq) == panic_checked(update_sequence_and_stats(r.ob, r.res, seq), r.res)

\* OrderbookL3::process: [ob, res, panic]
process(ob, event) ==
    processed(sequenced(store_event(ob, event), event), sequence(event))

\* ------------------------------------------------------------ levels
\* Iterator::take(n).collect() on a sequence
Iter_take(q, n) == SubSeq(q, 1, IF n < Len(q) THEN n ELSE Len(q))

RECURSIVE levels_scan_NoRunningTotal(_, _)
\* levels_scan, were the third component the level's own price * size
levels_scan_NoRunningTotal(v, liquidity) ==
    IF v = <<>> THEN <<>>
    ELSE <<<<Head(v).price, OrderDeque_size(Head(v)),
             Head(v).price * OrderDeque_size(Head(v))>>>>
         \o levels_scan_NoRunningTotal(Tail(v), liquidity)

\* the scan of levels over a side's vector: liquidity is the state of the
\* scan, grown by price * size() at each deque before the triple is made
RECURSIVE levels_scan(_, _)
levels_scan(v, liquidity) ==
    IF v = <<>> THEN <<>>
    ELSE <<<<Head(v).price, OrderDeque_size(Head(v)),
             liquidity + Head(v).price * OrderDeque_size(Head(v))>>>>
         \o levels_scan(Tail(v), liquidity + Head(v).price * OrderDeque_size(Head(v)))

\* OrderbookL3::levels
levels(ob, side, depth) ==
    IF depth.some
    THEN Iter_take(levels_scan(side_vec(ob, side), 0), depth.val)
    ELSE levels_scan(side_vec(ob, side), 0)

\* ------------------------------------------------------------ Iter
\* slice::Iter::next over a vector of deques: [item, rest]
Vec_next(v) == IF v = <<>> THEN [item |-> None, rest |-> v]
               ELSE [item |-> Some(Head(v)), rest |-> Tail(v)]

RECURSIVE Vec_rev(_)
Vec_rev(v) == IF v = <<>> THEN <<>> ELSE Append(Vec_rev(Tail(v)), Head(v))

\* iter, were the first ask deque of a book without bids peeked at and not
\* taken from asks_iter
iter_AskPeeked(ob) ==
    LET it0 == [side |-> "Buy", current_deque |-> None,
                bids_iter |-> Vec_rev(ob.bids), asks_iter |-> ob.asks,
                deque_iter |-> None]
        it1 == IF it0.bids_iter # <<>>
               THEN [it0 EXCEPT !.current_deque = Vec_next(it0.bids_iter).item,
                                !.bids_iter = Vec_next(it0.bids_iter).rest]
               ELSE IF it0.asks_iter # <<>>
               THEN [it0 EXCEPT !.current_deque = Vec_next(it0.asks_iter).item]
               ELSE it0
    IN  IF it1.current_deque.some
        THEN [it1 EXCEPT !.deque_iter = Some(it1.current_deque.val.deque)]
        ELSE it1

\* OrderbookL3::iter: the iterator as constructed. bids_iter and asks_iter are
\* the deques not yet taken, deque_iter the orders of the current deque not
\* yet yielded.
iter(ob) ==
    LET it0 == [side |-> "Buy", current_deque |-> None,
                bids_iter |-> Vec_rev(ob.bids), asks_iter |-> ob.asks,
                deque_iter |-> None]
        it1 == IF it0.bids_iter # <<>>
               THEN [it0 EXCEPT !.current_deque = Vec_next(it0.bids_iter).item,
                                !.bids_iter = Vec_next(it0.bids_iter).rest]
               ELSE IF it0.asks_iter # <<>>
               THEN [it0 EXCEPT !.current_deque = Vec_next(it0.asks_iter).item,
                                !.asks_iter = Vec_next(it0.asks_iter).rest]
               ELSE it0
    IN  IF it1.current_deque.some
        THEN [it1 EXCEPT !.deque_iter = Some(it1.current_deque.val.deque)]
        ELSE it1

\* Iterator::next for Iter: [it, item], looping as the source's loop does
RECURSIVE Iter_next(_)
Iter_next(it) ==
    IF it.side = "Buy"
    THEN IF it.current_deque.some
         THEN IF it.deque_iter.val # <<>>
              THEN [it |-> [it EXCEPT !.deque_iter = Some(Tail(@.val))],
                    item |-> Some([tag |-> "Bid", order |-> Head(it.deque_iter.val),
                                   otype |-> "Limit"])]
              ELSE LET n == Vec_next(it.bids_iter)
                   IN  Iter_next([it EXCEPT
                           !.current_deque = n.item,
                           !.bids_iter = n.rest,
                           !.deque_iter = IF n.item.some THEN Some(n.item.val.deque)
                                          ELSE None])
         ELSE LET n == Vec_next(it.asks_iter)
              IN  Iter_next([it EXCEPT
                      !.side = "Sell",
                      !.current_deque = n.item,
                      !.asks_iter = n.rest,
                      !.deque_iter = IF n.item.some THEN Some(n.item.val.deque) ELSE @])
    ELSE IF it.current_deque.some
         THEN IF it.deque_iter.val # <<>>
              THEN [it |-> [it EXCEPT !.deque_iter = Some(Tail(@.val))],
                    item |-> Some([tag |-> "Ask", order |-> Head(it.deque_iter.val),
                                   otype |-> "Limit"])]
              ELSE LET n == Vec_next(it.asks_iter)
                   IN  Iter_next([it EXCEPT
                           !.current_deque = n.item,
                           !.asks_iter = n.rest,
                           !.deque_iter = IF n.item.some THEN Some(n.item.val.deque)
                                          ELSE None])
         ELSE [it |-> it, item |-> None]

\* Iterator::collect: the orders yielded until the first None
RECURSIVE Iter_collect(_)
Iter_collect(it) ==
    LET n == Iter_next(it)
    IN  IF n.item.some THEN <<n.item.val>> \o Iter_collect(n.it) ELSE <<>>

\* Iterator::count, and OrderbookL3::len
Iter_count(it) == Len(Iter_collect(it))
len(ob)        == Iter_count(iter(ob))

\* ------------------------------------------------------------ OrderbookBuilder
\* OrderbookBuilder::build with a market set: the empty book carrying the
\* options of the builder
build(filter, stats_opt, panic, ring) ==
    [last_sequence |-> 0,
     bids |-> <<>>,
     asks |-> <<>>,
     order_id_map |-> <<>>,
     outlier_filter |-> filter,
     stats |-> stats_opt,
     panic_button |-> panic,
     last_n_events |-> ring]

\* OrderbookError::BuilderIncomplete(msg)
BuilderIncomplete(msg) == "BuilderIncomplete: " \o msg

\* OrderbookBuilder::new
OrderbookBuilder_new ==
    [market |-> None,
     outlier_filter |-> None,
     stats |-> None,
     panic_button |-> FALSE,
     last_n_events |-> None]

\* BoundedVecDeque::new(n)
BoundedVecDeque_new(n) == [max_len |-> n, buf |-> <<>>]

\* the methods of OrderbookBuilder that set an option
OrderbookBuilder_market(b, market) == [b EXCEPT !.market = Some(market)]
OrderbookBuilder_outlier_filter_default(b) ==
    [b EXCEPT !.outlier_filter = Some(SimpleOutlierFilter_new(None))]
OrderbookBuilder_outlier_filter(b, factor) ==
    [b EXCEPT !.outlier_filter = Some(SimpleOutlierFilter_new(Some(factor)))]
OrderbookBuilder_stats(b, track_errors) ==
    [b EXCEPT !.stats = Some(OrderbookStats_new(track_errors))]
OrderbookBuilder_add_panic_button(b) == [b EXCEPT !.panic_button = TRUE]
OrderbookBuilder_last_n_events(b, n) ==
    [b EXCEPT !.last_n_events = Some(BoundedVecDeque_new(n))]

\* OrderbookBuilder::build, were a builder without a market given a book too
OrderbookBuilder_build_WithoutMarket(b) ==
    [res |-> Ok,
     ob |-> build(b.outlier_filter, b.stats, b.panic_button, b.last_n_events)]

\* OrderbookBuilder::build: [res, ob]; ob only when res is Ok
OrderbookBuilder_build(b) ==
    IF ~b.market.some
    THEN [res |-> BuilderIncomplete("missing Market")]
    ELSE [res |-> Ok,
          ob |-> build(b.outlier_filter, b.stats, b.panic_button, b.last_n_events)]

\* the markets and the outlier factors (in percent) given to a builder
Markets       == {"btc_usd"}
CustomFactors == {25}

\* the options a builder can be given
FilterOptions == {None, Some(SimpleOutlierFilter_new(None))}
StatsOptions  == {None, Some(OrderbookStats_new(FALSE)), Some(OrderbookStats_new(TRUE))}
RingOptions   == {None, Some([max_len |-> RingCap, buf |-> <<>>])}

\* ------------------------------------------------------------ state
VARIABLES
    last_sequence,    \* OrderbookL3.last_sequence
    bids,             \* OrderbookL3.bids
    asks,             \* OrderbookL3.asks
    order_id_map,     \* OrderbookL3.order_id_map
    outlier_filter,   \* OrderbookL3.outlier_filter
    stats,            \* OrderbookL3.stats
    panic_button,     \* OrderbookL3.panic_button
    last_n_events,    \* OrderbookL3.last_n_events
    panicked,         \* the last process call panicked
    result,           \* kind of the result of the last process call
    calls,            \* number of process calls made
    accepted_seq,     \* sequence of the last event whose result was Ok or Outlier
    resting,          \* per id, the order as opened and changed, until Done
    opened,           \* ids that Open events were processed for
    closed,           \* ids that a Done event succeeded for
    reopened,         \* an Open succeeded for an id that was a key of order_id_map
    trail,            \* of a traced run: kind, id and result of each call, and
                      \* the event of the last one
    builder           \* the OrderbookBuilder, until build consumes it

vars == <<last_sequence, bids, asks, order_id_map, outlier_filter, stats,
          panic_button, last_n_events, panicked, result, calls, accepted_seq,
          resting, opened, closed, reopened, trail, builder>>

\* the book the variables hold
Self ==
    [last_sequence |-> last_sequence,
     bids |-> bids,
     asks |-> asks,
     order_id_map |-> order_id_map,
     outlier_filter |-> outlier_filter,
     stats |-> stats,
     panic_button |-> panic_button,
     last_n_events |-> last_n_events]

InitWith(filter, stats_opt, panic, ring) ==
    LET ob == build(filter, stats_opt, panic, ring)
    IN  /\ last_sequence = ob.last_sequence
        /\ bids = ob.bids
        /\ asks = ob.asks
        /\ order_id_map = ob.order_id_map
        /\ outlier_filter = ob.outlier_filter
        /\ stats = ob.stats
        /\ panic_button = ob.panic_button
        /\ last_n_events = ob.last_n_events
        /\ panicked = FALSE
        /\ result = "None"
        /\ calls = 0
        /\ accepted_seq = 0
        /\ resting = <<>>
        /\ opened = {}
        /\ closed = {}
        /\ reopened = FALSE
        /\ trail = <<>>
        /\ builder = None

\* the record of the orders opened and not yet done, after event gave res
resting_after(rs, event, res) ==
    IF res # Ok THEN rs
    ELSE IF event.kind = "Open" THEN Map_insert(rs, event.order.order.id, event.order.order)
    ELSE IF event.kind = "Done" THEN Map_remove(rs, event.id)
    ELSE IF event.kind = "Change" /\ event.id \in DOMAIN rs
         THEN [rs EXCEPT ![event.id].size = event.new_size]
    ELSE rs

\* one call of OrderbookL3::process
Process(event) ==
    /\ \E r \in {process(Self, event)} :
           /\ last_sequence' = r.ob.last_sequence
           /\ bids' = r.ob.bids
           /\ asks' = r.ob.asks
           /\ order_id_map' = r.ob.order_id_map
           /\ outlier_filter' = r.ob.outlier_filter
           /\ stats' = r.ob.stats
           /\ panic_button' = r.ob.panic_button
           /\ last_n_events' = r.ob.last_n_events
           /\ panicked' = r.panic
           /\ result' = r.res
           /\ calls' = calls + 1
           /\ accepted_seq' = IF r.res \in {Ok, "Outlier"} THEN sequence(event)
                              ELSE accepted_seq
           /\ resting' = resting_after(resting, event, r.res)
           /\ opened' = IF event.kind = "Open" THEN opened \cup {event.order.order.id}
                        ELSE opened
           /\ closed' = IF event.kind = "Done" /\ r.res = Ok THEN closed \cup {event.id}
                        ELSE closed
           /\ reopened' = (\/ reopened
                           \/ /\ event.kind = "Open"
                              /\ r.res = Ok
                              /\ event.order.order.id \in DOMAIN order_id_map)
           /\ builder' = builder

\* process can be called: the program has not panicked, and the run is not
\* over
CanCall == ~panicked /\ calls < MaxCalls

Received == \E e \in ReceivedEvents : CanCall /\ Process(e) /\ UNCHANGED trail
Open     == \E e \in OpenEvents : CanCall /\ Process(e) /\ UNCHANGED trail
Done     == \E e \in DoneEvents : CanCall /\ Process(e) /\ UNCHANGED trail
Change   == \E e \in ChangeEvents : CanCall /\ Process(e) /\ UNCHANGED trail

Init == \E f \in FilterOptions : InitWith(f, Some(OrderbookStats_new(FALSE)), FALSE, None)
Next == Received \/ Open \/ Done \/ Change
Spec == Init /\ [][Next]_vars

\* Event streams in which no Open names an id that is a key of order_id_map
\* when it is processed
OpenAbsent == \E e \in OpenEvents :
                  /\ CanCall
                  /\ e.order.order.id \notin DOMAIN order_id_map
                  /\ Process(e)
                  /\ UNCHANGED trail
NextNoReopen == Received \/ OpenAbsent \/ Done \/ Change
SpecNoReopen == Init /\ [][NextNoReopen]_vars

\* A sequenced stream, as the decoder delivers it to a book built with the
\* default outlier filter: the n-th event carries sequence n, orders are Limit
\* orders of a price that is a number. trail keeps what each call was given
\* and what it gave.
LimitOrders == {o \in Order : o.otype = "Limit"}

SequencedOrders == {o \in Order : o.otype = "Limit" /\ o.order.price # NaN}

event_id(event) ==
    IF event.kind \in {"Received", "Open"} THEN event.order.order.id ELSE event.id

CanCallSequenced == ~panicked /\ calls < MaxSequencedCalls

Traced(event) ==
    /\ Process(event)
    /\ trail' = Append([i \in DOMAIN trail |-> [trail[i] EXCEPT !.event = None]],
                        [kind |-> event.kind, id |-> event_id(event),
                         res |-> result', event |-> Some(event)])

ReceivedNext ==
    \E o \in SequencedOrders :
        CanCallSequenced /\ Traced([kind |-> "Received", order |-> o, seq |-> calls + 1])
OpenNext ==
    \E o \in SequencedOrders :
        CanCallSequenced /\ Traced([kind |-> "Open", order |-> o, seq |-> calls + 1])
DoneNext ==
    \E id \in Ids :
        CanCallSequenced /\ Traced([kind |-> "Done", id |-> id, seq |-> calls + 1])
ChangeNext ==
    \E id \in Ids : \E n \in NewSizes :
        CanCallSequenced
        /\ Traced([kind |-> "Change", id |-> id, new_size |-> n, seq |-> calls + 1])

InitSequenced ==
    InitWith(Some(SimpleOutlierFilter_new(None)), Some(OrderbookStats_new(FALSE)),
             FALSE, None)
NextSequenced == ReceivedNext \/ OpenNext \/ DoneNext \/ ChangeNext
SpecSequenced == InitSequenced /\ [][NextSequenced]_vars

\* A stream in which the decoder may deliver an event a second time: the n-th
\* call is given a new event of sequence n, or the event of the call before
\* it once more. The book is built with or without the outlier filter.
CanCallRedelivered == ~panicked /\ calls < MaxRedeliveredCalls

ReceivedNew ==
    \E o \in LimitOrders :
        CanCallRedelivered
        /\ Traced([kind |-> "Received", order |-> o, seq |-> calls + 1])
OpenNew ==
    \E o \in LimitOrders :
        CanCallRedelivered /\ Traced([kind |-> "Open", order |-> o, seq |-> calls + 1])
DoneNew ==
    \E id \in Ids :
        CanCallRedelivered /\ Traced([kind |-> "Done", id |-> id, seq |-> calls + 1])
ChangeNew ==
    \E id \in Ids : \E n \in NewSizes :
        CanCallRedelivered
        /\ Traced([kind |-> "Change", id |-> id, new_size |-> n, seq |-> calls + 1])
Redelivered ==
    /\ trail # <<>>
    /\ CanCallRedelivered
    /\ Traced(trail[Len(trail)].event.val)

NextRedelivered == ReceivedNew \/ OpenNew \/ DoneNew \/ ChangeNew \/ Redelivered
SpecRedelivered == Init /\ [][NextRedelivered]_vars

\* Books built with or without the panic button (no filter): a call that
\* panics ends the run
InitPanicButton ==
    \E p \in BOOLEAN : InitWith(None, Some(OrderbookStats_new(FALSE)), p, None)
SpecPanicButton == InitPanicButton /\ [][Next]_vars

\* Books built with stats(true), which keeps the error messages, with or
\* without the outlier filter
InitTrackErrors ==
    \E f \in FilterOptions : InitWith(f, Some(OrderbookStats_new(TRUE)), FALSE, None)
SpecTrackErrors == InitTrackErrors /\ [][Next]_vars

\* The builder: it starts as OrderbookBuilder::new(), its methods set options
\* in any order and any number of times, and build consumes it. Until build
\* gives Ok there is no book: the variables of the book hold nothing of note
\* (no order, no option).
book == <<last_sequence, bids, asks, order_id_map, outlier_filter, stats,
          panic_button, last_n_events>>
notes == <<panicked, calls, accepted_seq, resting, opened, closed, reopened, trail>>

InitBuilder ==
    /\ builder = Some(OrderbookBuilder_new)
    /\ last_sequence = 0
    /\ bids = <<>>
    /\ asks = <<>>
    /\ order_id_map = <<>>
    /\ outlier_filter = None
    /\ stats = None
    /\ panic_button = FALSE
    /\ last_n_events = None
    /\ panicked = FALSE
    /\ result = "None"
    /\ calls = 0
    /\ accepted_seq = 0
    /\ resting = <<>>
    /\ opened = {}
    /\ closed = {}
    /\ reopened = FALSE
    /\ trail = <<>>

Configure(b) == builder.some /\ builder' = Some(b) /\ UNCHANGED <<book, notes, result>>

SetMarket == \E m \in Markets : Configure(OrderbookBuilder_market(builder.val, m))
SetOutlierFilterDefault == Configure(OrderbookBuilder_outlier_filter_default(builder.val))
SetOutlierFilter ==
    \E f \in CustomFactors : Configure(OrderbookBuilder_outlier_filter(builder.val, f))
SetStats == \E t \in BOOLEAN : Configure(OrderbookBuilder_stats(builder.val, t))
AddPanicButton == Configure(OrderbookBuilder_add_panic_button(builder.val))
SetLastNEvents ==
    \E n \in 0 .. RingCap : Configure(OrderbookBuilder_last_n_events(builder.val, n))

Build ==
    /\ builder.some
    /\ builder' = None
    /\ \E r \in {OrderbookBuilder_build(builder.val)} :
           /\ result' = r.res
           /\ IF r.res = Ok
              THEN /\ last_sequence' = r.ob.last_sequence
                   /\ bids' = r.ob.bids
                   /\ asks' = r.ob.asks
                   /\ order_id_map' = r.ob.order_id_map
                   /\ outlier_filter' = r.ob.outlier_filter
                   /\ stats' = r.ob.stats
                   /\ panic_button' = r.ob.panic_button
                   /\ last_n_events' = r.ob.last_n_events
              ELSE UNCHANGED book
    /\ UNCHANGED notes

NextBuilder ==
    \/ SetMarket
    \/ SetOutlierFilterDefault
    \/ SetOutlierFilter
    \/ SetStats
    \/ AddPanicButton
    \/ SetLastNEvents
    \/ Build
SpecBuilder == InitBuilder /\ [][NextBuilder]_vars

\* The ten Open events of tests::orderbook_l3_basics, in their order, given to
\* a newly built book without outlier filter, whatever its other options.
\* Sizes are in units of 0.25.
ReferenceOpen(tag, id, price, size, seq) ==
    [kind |-> "Open",
     order |-> [tag |-> tag, order |-> [id |-> id, price |-> price, size |-> size],
                otype |-> "Limit"],
     seq |-> seq]

ReferenceOpens ==
    << ReferenceOpen("Ask", "A", 1005, 80, 1),
       ReferenceOpen("Bid", "B", 995, 20, 2),
       ReferenceOpen("Ask", "C", 1006, 4, 3),
       ReferenceOpen("Bid", "D", 994, 8, 4),
       ReferenceOpen("Ask", "E", 1005, 1, 5),
       ReferenceOpen("Bid", "F", 997, 40, 6),
       ReferenceOpen("Ask", "G", 1001, 16, 7),
       ReferenceOpen("Bid", "H", 996, 12, 8),
       ReferenceOpen("Ask", "I", 1005, 40, 9),
       ReferenceOpen("Bid", "J", 994, 24, 10) >>

InitReference ==
    \E st \in StatsOptions : \E p \in BOOLEAN : \E ring \in RingOptions :
        InitWith(None, st, p, ring)

OpenReference ==
    /\ ~panicked
    /\ calls < Len(ReferenceOpens)
    /\ Process(ReferenceOpens[calls + 1])
    /\ UNCHANGED trail

SpecReference == InitReference /\ [][OpenReference]_vars

\* ------------------------------------------------------------ observations
Sides == {"Buy", "Sell"}

\* the places <<side, level, position>> at which an order with the id rests
PlacesOf(ob, id) ==
    {pl \in UNION {{<<side, i, j>> : j \in 1 .. Len(side_vec(ob, side)[i].deque)} :
                     <<side, i>> \in UNION {{<<sd, k>> : k \in 1 .. Len(side_vec(ob, sd))}
                                              : sd \in Sides}} :
        side_vec(ob, pl[1])[pl[2]].deque[pl[3]].id = id}

\* the ids of the orders resting in any deque
RestingIds(ob) == {id \in Ids : PlacesOf(ob, id) # {}}

\* order_id_map and the deques agree in both directions
MapAgreesWithDeques(ob) ==
    /\ \A id \in RestingIds(ob) :
          /\ id \in DOMAIN ob.order_id_map
          /\ \A pl \in PlacesOf(ob, id) :
                ob.order_id_map[id] =
                    [side |-> pl[1], price |-> side_vec(ob, pl[1])[pl[2]].price]
    /\ \A id \in DOMAIN ob.order_id_map :
          /\ Cardinality(PlacesOf(ob, id)) = 1
          /\ \A pl \in PlacesOf(ob, id) :
                ob.order_id_map[id] =
                    [side |-> pl[1], price |-> side_vec(ob, pl[1])[pl[2]].price]

\* a side's vector with every order of the id taken out, and the levels this
\* leaves without orders dropped
RECURSIVE WithoutId(_, _)
WithoutId(v, id) ==
    IF v = <<>> THEN <<>>
    ELSE LET q == SelectSeq(Head(v).deque, LAMBDA o : o.id # id)
         IN  (IF q = <<>> THEN <<>> ELSE <<[Head(v) EXCEPT !.deque = q]>>)
             \o WithoutId(Tail(v), id)

DoneEvent(id, seq) == [kind |-> "Done", id |-> id, seq |-> seq]
OpenEvent(order, seq) == [kind |-> "Open", order |-> order, seq |-> seq]

\* C1: after every process call order_id_map and the deques agree in both
\* directions: every id resting in a deque is a key of order_id_map mapped to
\* that deque's (side, price), and every key of order_id_map locates exactly
\* one order of that id, in the deque at its (side, price).
C1_MapAgreesWithDeques == MapAgreesWithDeques(Self)

\* C2: a Done(id, seq) with seq > last_sequence on an id in order_id_map
\* succeeds, removes exactly the order of that id from its deque, deletes the
\* id from order_id_map and leaves every other order in place; afterwards,
\* with the filter disabled, get_order_ref(id) is OrderNotFoundInMap.
C2_DoneRemovesThatOrder ==
    \A id \in DOMAIN order_id_map : \A seq \in Sequences_ :
        seq > last_sequence =>
            \E r \in {process(Self, DoneEvent(id, seq))} :
                /\ r.res = Ok
                /\ r.ob.bids = WithoutId(bids, id)
                /\ r.ob.asks = WithoutId(asks, id)
                /\ r.ob.order_id_map = Map_remove(order_id_map, id)
                /\ (~outlier_filter.some =>
                       get_order_ref(r.ob, id).res = "OrderNotFoundInMap")

\* C3: for an order o whose id is not in the book and whose Open(o, s1),
\* s1 > last_sequence, is accepted, Open(o, s1) then Done(o.id, s2), s2 > s1,
\* leaves bids, asks and order_id_map as they were before the Open.
C3_OpenThenDoneRestores ==
    \A o \in Order : \A s1 \in Sequences_ : \A s2 \in Sequences_ :
        (/\ s1 > last_sequence
         /\ s2 > s1
         /\ order_id(o) \notin DOMAIN order_id_map
         /\ order_id(o) \notin RestingIds(Self)) =>
            \E r1 \in {process(Self, OpenEvent(o, s1))} :
                r1.res = Ok =>
                    \E r2 \in {process(r1.ob, DoneEvent(order_id(o), s2))} :
                        /\ r2.ob.bids = bids
                        /\ r2.ob.asks = asks
                        /\ r2.ob.order_id_map = order_id_map

\* C4: last_sequence never decreases; after each call it is the sequence of
\* the most recent event whose result was Ok or Outlier (0 if none); an event
\* with such a result has a sequence above that of every one before it.
C4_LastSequenceFollowsAccepted ==
    [][/\ last_sequence' >= last_sequence
       /\ last_sequence' = accepted_seq'
       /\ (result' \in {Ok, "Outlier"} => last_sequence' > last_sequence)]_vars

\* C4: a call was rejected after events were accepted
W4_RejectedAfterAccepted ==
    /\ result \in ErrKinds \ {"Outlier"}
    /\ last_sequence > 1
    /\ last_sequence = accepted_seq

\* C5: a call with event.sequence <= last_sequence, whatever the event, gives
\* OutOfSequence and leaves bids, asks, order_id_map, the outlier filter and
\* last_sequence unchanged; with stats enabled events_not_processed grows by
\* one and events_processed stays.
C5_OutOfSequenceIsInert ==
    \A e \in OrderbookEvent :
        sequence(e) <= last_sequence =>
            \E r \in {process(Self, e)} :
                /\ r.res = "OutOfSequence"
                /\ r.ob.bids = bids
                /\ r.ob.asks = asks
                /\ r.ob.order_id_map = order_id_map
                /\ r.ob.outlier_filter = outlier_filter
                /\ r.ob.last_sequence = last_sequence
                /\ r.ob.stats.some = stats.some
                /\ stats.some =>
                      /\ r.ob.stats.val.events_not_processed =
                             stats.val.events_not_processed + 1
                      /\ r.ob.stats.val.events_processed = stats.val.events_processed

\* C5: an out-of-sequence call was made on a book holding orders and a
\* recorded outlier
W5_OutOfSequenceOnFilledBook ==
    /\ result = "OutOfSequence"
    /\ order_id_map # <<>>
    /\ outlier_filter.some
    /\ outlier_filter.val.outlier_ids # {}

\* C6: a Change or Done with sequence > last_sequence on an id that is neither
\* in order_id_map nor recorded by the outlier filter gives OrderNotFoundInMap
\* and leaves last_sequence, bids, asks and order_id_map unchanged.
C6_UnknownIdIsNotFound ==
    \A e \in DoneEvents \cup ChangeEvents :
        (/\ sequence(e) > last_sequence
         /\ e.id \notin DOMAIN order_id_map
         /\ ~(outlier_filter.some /\ e.id \in outlier_filter.val.outlier_ids)) =>
            \E r \in {process(Self, e)} :
                /\ r.res = "OrderNotFoundInMap"
                /\ r.ob.last_sequence = last_sequence
                /\ r.ob.bids = bids
                /\ r.ob.asks = asks
                /\ r.ob.order_id_map = order_id_map

\* C6: an unknown id was reported while the book holds an order and the filter
\* records another id
W6_UnknownIdReported ==
    /\ result = "OrderNotFoundInMap"
    /\ order_id_map # <<>>
    /\ outlier_filter.some
    /\ outlier_filter.val.outlier_ids # {}
    /\ last_sequence = accepted_seq

\* C7: after every call the bids are strictly descending in price and the asks
\* strictly ascending, so no two deques of a side share a price.
C7_SidesStrictlySorted ==
    /\ \A i \in 1 .. (Len(bids) - 1) : bids[i].price > bids[i + 1].price
    /\ \A i \in 1 .. (Len(asks) - 1) : asks[i].price < asks[i + 1].price

\* C7: a side holds three levels
W7_ThreeLevels == Len(bids) >= 3 \/ Len(asks) >= 3

\* C8: after every call no deque of bids or asks is empty.
C8_NoEmptyDeque ==
    /\ \A i \in 1 .. Len(bids) : bids[i].deque # <<>>
    /\ \A i \in 1 .. Len(asks) : asks[i].deque # <<>>

\* C8: orders were opened and every one of them was closed by a Done, so each
\* level lost its last order, and the book holds no level
W8_LastOrderClosed ==
    /\ closed # {}
    /\ result = Ok
    /\ bids = <<>>
    /\ asks = <<>>

\* the counts of the orders agree
CountsAgree(ob) ==
    /\ bid_count(ob) + ask_count(ob) = len(ob)
    /\ len(ob) = Cardinality(DOMAIN ob.order_id_map)
    /\ Cardinality(DOMAIN ob.order_id_map) = Iter_count(iter(ob))

\* C9, as stated: after every call of any event sequence,
\* bid_count() + ask_count() == len() == size of order_id_map == iter().count().
C9_CountsAgree == CountsAgree(Self)

\* C9, amended: the counts agree after every call of an event sequence in which
\* no Open succeeded for an id that was a key of order_id_map at that moment.
C9_CountsAgreeUnlessReopened == ~reopened => CountsAgree(Self)

\* C9: orders were opened on both sides and one was closed, no id reopened
W9_CountsAfterDone ==
    /\ ~reopened
    /\ closed # {}
    /\ order_id_map # <<>>
    /\ result = Ok

\* C10: for every order accepted by an Open and not since closed by a
\* successful Done, get_order_ref(id) is Ok with the id and price of the Open
\* and the size of the latest successful Change (the Open's size if none).
C10_GetOrderRefReturnsResting ==
    \A id \in DOMAIN resting :
        get_order_ref(Self, id) = [res |-> Ok, order |-> resting[id]]

ChangeEvent(id, new_size, seq) ==
    [kind |-> "Change", id |-> id, new_size |-> new_size, seq |-> seq]

\* the book ob with the size of the order at the place pl set to new_size
WithSizeAt(ob, pl, new_size) ==
    with_side_vec(ob, pl[1],
        [side_vec(ob, pl[1]) EXCEPT ![pl[2]].deque[pl[3]].size = new_size])

\* ob1 is ob0 but for the size of one order of the id, which is new_size
OnlySizeChanged(ob0, ob1, id, new_size) ==
    /\ ob1.order_id_map = ob0.order_id_map
    /\ \E pl \in PlacesOf(ob0, id) :
          \E c \in {WithSizeAt(ob0, pl, new_size)} :
              ob1.bids = c.bids /\ ob1.asks = c.asks

\* C11: a successful Change(id, new_size, seq) sets the size of one order of
\* that id to new_size and changes nothing else: prices, sides, positions,
\* every other order, the levels and order_id_map stay; the same Change
\* applied again with a later sequence succeeds and leaves the same book.
C11_ChangeOnlySetsSize ==
    \A e \in ChangeEvents :
        sequence(e) > last_sequence =>
            \E r \in {process(Self, e)} :
                r.res = Ok =>
                    /\ OnlySizeChanged(Self, r.ob, e.id, e.new_size)
                    /\ \A s2 \in Sequences_ :
                          s2 > sequence(e) =>
                              \E r2 \in {process(r.ob, ChangeEvent(e.id, e.new_size, s2))} :
                                  /\ r2.res = Ok
                                  /\ r2.ob.bids = r.ob.bids
                                  /\ r2.ob.asks = r.ob.asks
                                  /\ r2.ob.order_id_map = r.ob.order_id_map

\* C11: a Change to size 0 succeeded on an order that shares its deque with
\* another order, which kept the size it was opened with
W11_ChangedBesideUnchanged ==
    /\ result = Ok
    /\ \E side \in Sides : \E i \in 1 .. Len(side_vec(Self, side)) :
          \E j, k \in 1 .. Len(side_vec(Self, side)[i].deque) :
              /\ side_vec(Self, side)[i].deque[j].size = 0
              /\ side_vec(Self, side)[i].deque[k].size > 0

\* the ids the outlier filter records; none when the filter is disabled
RecordedOutliers(ob) ==
    IF ob.outlier_filter.some THEN ob.outlier_filter.val.outlier_ids ELSE {}

\* C12: with the outlier filter enabled, after every process call of any event
\* sequence, no id recorded by the filter is a key of order_id_map.
C12_NoRecordedOutlierInMap ==
    outlier_filter.some => RecordedOutliers(Self) \cap DOMAIN order_id_map = {}

\* the condition under which an order is an outlier of the book: f is the
\* factor in percent, so price < best * (1 - f) is taken times 100
IsOutlierOf(ob, o, f) ==
    \/ /\ o.tag = "Bid"
       /\ best_bid(ob) # 0
       /\ o.order.price * 100 < best_bid(ob) * (100 - f)
    \/ /\ o.tag = "Ask"
       /\ best_ask(ob) # 0
       /\ o.order.price * 100 > best_ask(ob) * (100 + f)

C14_RejectedOpenIsConsumed ==
    \A e \in OpenEvents :
        sequence(e) > last_sequence =>
            \E r \in {process(Self, e)} :
                r.res = "Outlier" =>
                    /\ r.ob.last_sequence = sequence(e)
                    /\ r.ob.stats.val.events_not_processed =
                           stats.val.events_not_processed + 1
                    /\ r.ob.stats.val.events_processed = stats.val.events_processed
                    /\ r.ob.bids = bids
                    /\ r.ob.asks = asks
                    /\ r.ob.order_id_map = order_id_map
                    /\ RecordedOutliers(r.ob) =
                           RecordedOutliers(Self) \cup {e.order.order.id}

\* C14: an Open was rejected as an outlier after an Open was accepted, and the
\* book holds the accepted order only
W14_RejectedOpenConsumed ==
    /\ result = "Outlier"
    /\ last_sequence = accepted_seq
    /\ last_sequence > 1
    /\ stats.val.events_not_processed >= 1
    /\ stats.val.events_processed >= 1
    /\ RecordedOutliers(Self) \ DOMAIN order_id_map # {}

\* C15: for an id the outlier filter records and order_id_map does not hold, a
\* Change or Done with sequence > last_sequence gives Outlier and advances
\* last_sequence; Done takes the id out of the recorded set, Change leaves the
\* set; neither changes bids, asks or order_id_map.
C15_RecordedIdResolvesToOutlier ==
    \A e \in DoneEvents \cup ChangeEvents :
        (/\ sequence(e) > last_sequence
         /\ e.id \in RecordedOutliers(Self)
         /\ e.id \notin DOMAIN order_id_map) =>
            \E r \in {process(Self, e)} :
                /\ r.res = "Outlier"
                /\ r.ob.last_sequence = sequence(e)
                /\ RecordedOutliers(r.ob) =
                       IF e.kind = "Done" THEN RecordedOutliers(Self) \ {e.id}
                       ELSE RecordedOutliers(Self)
                /\ r.ob.bids = bids
                /\ r.ob.asks = asks
                /\ r.ob.order_id_map = order_id_map

\* C15: a Done on a recorded id gave Outlier and emptied the recorded set
W15_DoneEvictedOutlier ==
    /\ result = "Outlier"
    /\ outlier_filter.some
    /\ RecordedOutliers(Self) = {}
    /\ last_sequence = accepted_seq
    /\ order_id_map # <<>>

\* C16, as stated: for an id recorded by the filter after its Open was
\* rejected, Done(id) gives Outlier and evicts the id, and a Change(id, n)
\* after it gives Outlier too, the recorded set staying as the Done left it.
C16_ChangeAfterDoneIsOutlier ==
    \A id \in RecordedOutliers(Self) \ DOMAIN order_id_map : \A n \in NewSizes :
        \E r1 \in {process(Self, DoneEvent(id, last_sequence + 1))} :
            /\ r1.res = "Outlier"
            /\ id \notin RecordedOutliers(r1.ob)
            /\ \E r2 \in {process(r1.ob, ChangeEvent(id, n, last_sequence + 2))} :
                  /\ r2.res = "Outlier"
                  /\ RecordedOutliers(r2.ob) = RecordedOutliers(r1.ob)

\* C16, amended: for an id recorded by the filter after its Open was rejected,
\* and not a key of order_id_map, Done(id) gives Outlier, advances
\* last_sequence and evicts the id; a Change(id, n) after it gives
\* OrderNotFoundInMap, leaves last_sequence at the Done's sequence and leaves
\* the recorded set as the Done left it.
C16_ChangeAfterDoneIsNotFound ==
    \A id \in RecordedOutliers(Self) \ DOMAIN order_id_map : \A n \in NewSizes :
        \E r1 \in {process(Self, DoneEvent(id, last_sequence + 1))} :
            /\ r1.res = "Outlier"
            /\ r1.ob.last_sequence = last_sequence + 1
            /\ id \notin RecordedOutliers(r1.ob)
            /\ \E r2 \in {process(r1.ob, ChangeEvent(id, n, last_sequence + 2))} :
                  /\ r2.res = "OrderNotFoundInMap"
                  /\ r2.ob.last_sequence = last_sequence + 1
                  /\ RecordedOutliers(r2.ob) = RecordedOutliers(r1.ob)

\* C16: the last three calls were the Open of an id rejected as an outlier,
\* the Done of that id and a Change of that id
W16_OpenDoneChangeOfOutlier ==
    /\ Len(trail) >= 3
    /\ trail[Len(trail) - 2].kind = "Open"
    /\ trail[Len(trail) - 2].res = "Outlier"
    /\ trail[Len(trail) - 1].kind = "Done"
    /\ trail[Len(trail) - 1].id = trail[Len(trail) - 2].id
    /\ trail[Len(trail) - 1].res = "Outlier"
    /\ trail[Len(trail)].kind = "Change"
    /\ trail[Len(trail)].id = trail[Len(trail) - 2].id
    /\ trail[Len(trail)].res = "OrderNotFoundInMap"

\* the prices of the orders resting on a side
RestingPrices(ob, side) ==
    {side_vec(ob, pl[1])[pl[2]].deque[pl[3]].price :
        pl \in {q \in UNION {PlacesOf(ob, id) : id \in Ids} : q[1] = side}}

\* C17: in every reachable state best_bid() is the price of bids[0] when bids
\* is non-empty and 0.0 otherwise, best_ask() is the price of asks[0] when
\* asks is non-empty and 0.0 otherwise; bids[0] is the highest price of the
\* resting bids and asks[0] the lowest price of the resting asks.
C17_BestIsFirstLevel ==
    /\ bids = <<>> => best_bid(Self) = 0
    /\ asks = <<>> => best_ask(Self) = 0
    /\ bids # <<>> =>
          /\ best_bid(Self) = bids[1].price
          /\ bids[1].price \in RestingPrices(Self, "Buy")
          /\ \A p \in RestingPrices(Self, "Buy") : p <= bids[1].price
    /\ asks # <<>> =>
          /\ best_ask(Self) = asks[1].price
          /\ asks[1].price \in RestingPrices(Self, "Sell")
          /\ \A p \in RestingPrices(Self, "Sell") : p >= asks[1].price

\* C17: the bids hold two levels or more, the first of a price above 0, and
\* the asks hold a level
W17_LevelsOnBothSides ==
    /\ Len(bids) >= 2
    /\ bids[1].price > 0
    /\ asks # <<>>

\* the sum of the sizes of the orders of a deque, and the sum of
\* price * level size over the first k levels of a side's vector
RECURSIVE SizeSum(_, _)
SizeSum(q, j) == IF j = 0 THEN 0 ELSE SizeSum(q, j - 1) + q[j].size

RECURSIVE LiquidityUpTo(_, _)
LiquidityUpTo(v, k) ==
    IF k = 0 THEN 0
    ELSE LiquidityUpTo(v, k - 1) + v[k].price * SizeSum(v[k].deque, Len(v[k].deque))

\* C18: levels(side, None) has one triple (price, level_size, cumulative) per
\* deque of the side, in the order of the side's vector, best price first;
\* level_size is the sum of the sizes of the deque's orders and the cumulative
\* of the k-th triple is the sum over i <= k of price_i * level_size_i;
\* levels(side, Some(n)) is the first min(n, number of levels) triples of it.
C18_LevelsAreRunningTotals ==
    \A side \in Sides :
        \E v \in {side_vec(Self, side)} : \E all \in {levels(Self, side, None)} :
            /\ Len(all) = Len(v)
            /\ \A k \in 1 .. Len(v) :
                  /\ all[k][1] = v[k].price
                  /\ all[k][2] = SizeSum(v[k].deque, Len(v[k].deque))
                  /\ all[k][3] = LiquidityUpTo(v, k)
            /\ (v # <<>> =>
                   all[1][1] = IF side = "Buy" THEN best_bid(Self) ELSE best_ask(Self))
            /\ \A n \in 0 .. (Len(v) + 1) :
                  \E some \in {levels(Self, side, Some(n))} :
                      /\ Len(some) = IF n < Len(v) THEN n ELSE Len(v)
                      /\ \A k \in 1 .. Len(some) : some[k] = all[k]

\* C18: the asks hold two levels whose cumulative grows from the first to the
\* second, so a depth of 1 cuts the list
W18_TwoLevelsOfLiquidity ==
    /\ Len(asks) >= 2
    /\ levels(Self, "Sell", None)[1][3] > 0
    /\ levels(Self, "Sell", None)[2][3] > levels(Self, "Sell", None)[1][3]
    /\ levels(Self, "Sell", Some(1)) # levels(Self, "Sell", None)

\* the orders of the deques of a vector, deque after deque, each deque from
\* its front, as Limit orders of the tag
RECURSIVE Tagged(_, _)
Tagged(v, tag) ==
    IF v = <<>> THEN <<>>
    ELSE [j \in 1 .. Len(Head(v).deque) |->
             [tag |-> tag, order |-> Head(v).deque[j], otype |-> "Limit"]]
         \o Tagged(Tail(v), tag)

\* the bids vector from its last deque to its first
Reversed(v) == [i \in 1 .. Len(v) |-> v[Len(v) + 1 - i]]

\* C19: in every reachable state, one with no bids and some asks included,
\* iter() yields every resting bid from the worst price to the best, then
\* every resting ask from the best price to the worst, each deque in FIFO
\* order, the bids tagged Bid and the asks tagged Ask, with OrderType::Limit.
C19_IterYieldsBidsThenAsks ==
    Iter_collect(iter(Self)) = Tagged(Reversed(bids), "Bid") \o Tagged(asks, "Ask")

\* the step is the second of two calls in a row with the same event
SameEventAgain ==
    /\ trail # <<>>
    /\ Len(trail') = Len(trail) + 1
    /\ trail'[Len(trail')].event = trail[Len(trail)].event

\* the step leaves bids, asks, order_id_map, the filter and last_sequence
BookUnchanged ==
    /\ bids' = bids
    /\ asks' = asks
    /\ order_id_map' = order_id_map
    /\ outlier_filter' = outlier_filter
    /\ last_sequence' = last_sequence

\* C20, as stated: when process is called twice in a row with the same event,
\* the second call gives OutOfSequence and leaves bids, asks, order_id_map,
\* the outlier set and last_sequence as the first call left them.
C20_SecondIsOutOfSequence ==
    [][SameEventAgain => (BookUnchanged /\ result' = "OutOfSequence")]_vars

\* C20, amended: when process is called twice in a row with the same event,
\* the second call leaves bids, asks, order_id_map, the outlier set and
\* last_sequence as the first call left them; it gives OutOfSequence when the
\* first call gave Ok, Outlier or OutOfSequence, and the first call's error
\* again when that was any other error.
C20_SecondIsInert ==
    [][SameEventAgain =>
          /\ BookUnchanged
          /\ result' = IF result \in {Ok, "Outlier", "OutOfSequence"}
                       THEN "OutOfSequence" ELSE result]_vars

\* C20: an Open was accepted and the same event was given again, which was
\* out of sequence (a new event of the stream never is)
W20_AcceptedEventGivenAgain ==
    /\ Len(trail) >= 2
    /\ trail[Len(trail)].kind = "Open"
    /\ trail[Len(trail) - 1].kind = "Open"
    /\ trail[Len(trail)].id = trail[Len(trail) - 1].id
    /\ trail[Len(trail) - 1].res = Ok
    /\ trail[Len(trail)].res = "OutOfSequence"
    /\ trail[Len(trail)].event.val.seq = last_sequence

\* C21: a Received event with sequence > last_sequence succeeds and changes
\* nothing of the book, whatever order it carries: bids, asks, order_id_map
\* and the outlier filter stay, last_sequence becomes the event's sequence,
\* events_processed grows by one and events_not_processed stays.
C21_ReceivedIsNoOp ==
    \A e \in ReceivedEvents :
        sequence(e) > last_sequence =>
            \E r \in {process(Self, e)} :
                /\ r.res = Ok
                /\ r.ob.bids = bids
                /\ r.ob.asks = asks
                /\ r.ob.order_id_map = order_id_map
                /\ r.ob.outlier_filter = outlier_filter
                /\ r.ob.last_sequence = sequence(e)
                /\ r.ob.stats.val.events_processed = stats.val.events_processed + 1
                /\ r.ob.stats.val.events_not_processed =
                       stats.val.events_not_processed

\* C21: the last call was given a Received event in sequence, for an order
\* that would have been an outlier of the book it holds, and it succeeded
W21_ReceivedOnFilledBook ==
    /\ trail # <<>>
    /\ trail[Len(trail)].kind = "Received"
    /\ trail[Len(trail)].res = Ok
    /\ outlier_filter.some
    /\ bids # <<>>
    /\ IsOutlierOf(Self, trail[Len(trail)].event.val.order,
                   outlier_filter.val.outlier_factor)
    /\ last_sequence = trail[Len(trail)].event.val.seq

\* C22: with the panic button disabled no process call panics; with it
\* enabled a process call panics exactly when, after the event was handled,
\* both sides are non-empty and the best bid is above the best ask.
C22_PanicsExactlyWhenCrossed ==
    calls > 0 =>
        /\ ~panic_button => ~panicked
        /\ panic_button =>
              (panicked <=> (/\ bids # <<>>
                             /\ asks # <<>>
                             /\ bids[1].price > asks[1].price))

\* C23: with stats enabled with track_errors = true, every process call whose
\* result is an error (OutOfSequence, OrderNotFoundInMap, OrderNotFoundInDeque,
\* MissingOrderDeque, NanFloat or Outlier) appends one entry to the error
\* message log of the stats.
C23_EveryErrorIsLogged ==
    [][(calls' = calls + 1 /\ result' \in ErrKinds) =>
          Len(stats'.val.error_msgs.val) = Len(stats.val.error_msgs.val) + 1]_vars

\* C24: build gives Err(BuilderIncomplete("missing Market")) when no market
\* was set, whatever the other options; otherwise it gives a book with
\* last_sequence = 0 and empty bids, asks and order_id_map, for which
\* best_bid() and best_ask() are 0.0, levels(side, None) is empty and len()
\* is 0, and which carries the options set on the builder, each as it was set
\* last.
C24_BuildGivesEmptyBookOfOptions ==
    [][(builder.some /\ ~builder'.some) =>
          IF ~builder.val.market.some
          THEN result' = BuilderIncomplete("missing Market") /\ UNCHANGED book
          ELSE /\ result' = Ok
               /\ last_sequence' = 0
               /\ bids' = <<>>
               /\ asks' = <<>>
               /\ order_id_map' = <<>>
               /\ best_bid(Self)' = 0
               /\ best_ask(Self)' = 0
               /\ levels(Self, "Buy", None)' = <<>>
               /\ levels(Self, "Sell", None)' = <<>>
               /\ len(Self)' = 0
               /\ outlier_filter' = builder.val.outlier_filter
               /\ stats' = builder.val.stats
               /\ panic_button' = builder.val.panic_button
               /\ last_n_events' = builder.val.last_n_events]_vars

\* C24: a book was built by a builder on which every option was set
W24_BuiltWithEveryOption ==
    /\ ~builder.some
    /\ result = Ok
    /\ calls = 0
    /\ last_sequence = 0
    /\ outlier_filter = Some(SimpleOutlierFilter_new(Some(25)))
    /\ stats = Some(OrderbookStats_new(TRUE))
    /\ panic_button = TRUE
    /\ last_n_events = Some(BoundedVecDeque_new(RingCap))

\* C25, as stated: after the ten reference Open events on a newly built book
\* without filter, best_bid() = 997, best_ask() = 1001, num_bid_levels() = 4,
\* num_ask_levels() = 3, bid_count() = 4, ask_count() = 5, len() = 9 and
\* last_sequence = 10.
C25_ReferenceBookCounts4And9 ==
    calls = Len(ReferenceOpens) =>
        /\ best_bid(Self) = 997
        /\ best_ask(Self) = 1001
        /\ num_bid_levels(Self) = 4
        /\ num_ask_levels(Self) = 3
        /\ bid_count(Self) = 4
        /\ ask_count(Self) = 5
        /\ len(Self) = 9
        /\ last_sequence = 10

\* C25, amended: after the ten reference Open events on a newly built book
\* without filter, best_bid() = 997, best_ask() = 1001, num_bid_levels() = 4,
\* num_ask_levels() = 3, bid_count() = 5, ask_count() = 5, len() = 10 and
\* last_sequence = 10.
C25_ReferenceBookCounts5And10 ==
    calls = Len(ReferenceOpens) =>
        /\ best_bid(Self) = 997
        /\ best_ask(Self) = 1001
        /\ num_bid_levels(Self) = 4
        /\ num_ask_levels(Self) = 3
        /\ bid_count(Self) = 5
        /\ ask_count(Self) = 5
        /\ len(Self) = 10
        /\ last_sequence = 10

\* C25: the ten reference events were given and each was accepted
W25_ReferenceEventsApplied ==
    /\ calls = Len(ReferenceOpens)
    /\ ~panicked
    /\ DOMAIN resting = {"A", "B", "C", "D", "E", "F", "G", "H", "I", "J"}
    /\ accepted_seq = 10

\* The decision the doc comment of SimpleOutlierFilter describes, with the
\* factor f in percent: a bid below best_bid / f, an ask above best_bid * f,
\* once the order's side of the book has a best price.
DocumentedOutlier(o, top, f) ==
    \/ /\ o.tag = "Bid"
       /\ top[1] # DEFAULT_BEST_BID
       /\ o.order.price * f < top[1] * 100
    \/ /\ o.tag = "Ask"
       /\ top[2] # DEFAULT_BEST_ASK
       /\ o.order.price * 100 > top[1] * f

\* C26: the filter's cutoffs are those of its documentation: for every order
\* and top of book, SimpleOutlierFilter::check rejects the order exactly when
\* it is a bid below best_bid / outlier_factor or an ask above
\* best_bid * outlier_factor (an order whose side of the book is empty being
\* accepted).
C26_CutoffsAsDocumented ==
    outlier_filter.some =>
        \A o \in SequencedOrders :
            (SimpleOutlierFilter_check(outlier_filter.val, o, top_level(Self)).res
                 = "Outlier")
            <=> DocumentedOutlier(o, top_level(Self),
                                  outlier_filter.val.outlier_factor)

\* C27: with stats enabled, every process call increments exactly one of the
\* two counters by exactly 1, events_processed when the result is Ok and
\* events_not_processed when it is any error; events_processed +
\* events_not_processed equals the number of process calls made; and
\* last_sequence changes only in a call that results in Ok or Outlier.
C27_OneCounterPerCall ==
    [][(stats.some /\ calls' = calls + 1) =>
          /\ stats'.some
          /\ IF result' = Ok
             THEN /\ stats'.val.events_processed = stats.val.events_processed + 1
                  /\ stats'.val.events_not_processed = stats.val.events_not_processed
             ELSE /\ result' \in ErrKinds
                  /\ stats'.val.events_processed = stats.val.events_processed
                  /\ stats'.val.events_not_processed
                         = stats.val.events_not_processed + 1
          /\ stats'.val.events_processed + stats'.val.events_not_processed = calls'
          /\ (last_sequence' # last_sequence => result' \in {Ok, "Outlier"})]_vars

\* C27: three calls gave Ok, Outlier and an error that is logged
W27_OkOutlierAndLoggedError ==
    /\ stats.some
    /\ calls = 3
    /\ stats.val.events_processed = 1
    /\ stats.val.events_not_processed = 2
    /\ RecordedOutliers(Self) # {}
    /\ Len(stats.val.error_msgs.val) = 1
    /\ result \in ErrKinds \ {"Outlier"}

\* the orders of the deque at the side's price, front first; none when the
\* side has no deque of that price
DequeAt(ob, side, price) ==
    IF \E i \in DOMAIN side_vec(ob, side) : side_vec(ob, side)[i].price = price
    THEN side_vec(ob, side)[CHOOSE i \in DOMAIN side_vec(ob, side) :
                                side_vec(ob, side)[i].price = price].deque
    ELSE <<>>

WithoutPosition(q, j) == SubSeq(q, 1, j - 1) \o SubSeq(q, j + 1, Len(q))

\* what the call that made the current state was given and what it gave
LastCall == trail[Len(trail)]

\* C29: within every deque the orders are in arrival order, and every call
\* keeps it so: an Open that succeeds puts its order at the tail of the deque
\* at its side and price and leaves every other deque as it was; a Done that
\* succeeds takes one order out of one deque, the remaining orders keeping
\* their relative order; a Change that succeeds at most sets the size of one
\* order where it stands; any other call leaves every deque as it was.
C29_CallsKeepArrivalOrder ==
    [][(calls' = calls + 1) =>
          \A sd \in Sides : \A p \in Prices :
              \/ DequeAt(Self, sd, p)' = DequeAt(Self, sd, p)
              \/ /\ LastCall'.kind = "Open"
                 /\ LastCall'.res = Ok
                 /\ sd = order_side(LastCall'.event.val.order)
                 /\ p = LastCall'.event.val.order.order.price
                 /\ DequeAt(Self, sd, p)' =
                        Append(DequeAt(Self, sd, p), LastCall'.event.val.order.order)
              \/ /\ LastCall'.kind = "Done"
                 /\ LastCall'.res = Ok
                 /\ \E j \in DOMAIN DequeAt(Self, sd, p) :
                        DequeAt(Self, sd, p)' = WithoutPosition(DequeAt(Self, sd, p), j)
                 /\ \A sd2 \in Sides : \A p2 \in Prices :
                        (<<sd2, p2>> # <<sd, p>>) =>
                            DequeAt(Self, sd2, p2)' = DequeAt(Self, sd2, p2)
              \/ /\ LastCall'.kind = "Change"
                 /\ LastCall'.res = Ok
                 /\ \E j \in DOMAIN DequeAt(Self, sd, p) :
                        DequeAt(Self, sd, p)' =
                            [DequeAt(Self, sd, p) EXCEPT
                                 ![j].size = LastCall'.event.val.new_size]]_vars

\* C29: three orders arrived at one price and a Done took one of them out:
\* the two that remain stand in the order of their arrival
W29_TwoRemainInArrivalOrder ==
    /\ Len(trail) = 4
    /\ \A n \in 1 .. 3 : trail[n].kind = "Open" /\ trail[n].res = Ok
    /\ trail[4].kind = "Done"
    /\ trail[4].res = Ok
    /\ \E sd \in Sides : \E p \in Prices :
          \E i \in 1 .. 3 : \E j \in (i + 1) .. 3 :
              /\ trail[i].id # trail[j].id
              /\ Len(DequeAt(Self, sd, p)) = 2
              /\ DequeAt(Self, sd, p)[1].id = trail[i].id
              /\ DequeAt(Self, sd, p)[2].id = trail[j].id

\* every order of every deque has the deque's price
PricesAgree(ob) ==
    \A sd \in Sides : \A i \in DOMAIN side_vec(ob, sd) :
        \A j \in DOMAIN side_vec(ob, sd)[i].deque :
            side_vec(ob, sd)[i].deque[j].price = side_vec(ob, sd)[i].price

\* the <<id, price>> of the orders in the deques of the side
OrdersOn(ob, sd) ==
    UNION {{<<side_vec(ob, sd)[i].deque[j].id, side_vec(ob, sd)[i].price>> :
               j \in DOMAIN side_vec(ob, sd)[i].deque} :
           i \in DOMAIN side_vec(ob, sd)}

\* C30: after every process call every order in a deque has the deque's
\* price, and an order is in a deque of a side only if it was there before
\* the call or the call was a successful Open of that order whose tag is
\* that side's (Bid for bids, Ask for asks) and whose price is the deque's.
C30_OrderAtItsPriceAndSide ==
    [][(calls' = calls + 1) =>
          /\ PricesAgree(Self)'
          /\ \A sd \in Sides :
                \A o \in OrdersOn(Self, sd)' \ OrdersOn(Self, sd) :
                    /\ LastCall'.kind = "Open"
                    /\ LastCall'.res = Ok
                    /\ order_side(LastCall'.event.val.order) = sd
                    /\ ((LastCall'.event.val.order.tag = "Bid") <=> (sd = "Buy"))
                    /\ o = <<LastCall'.event.val.order.order.id,
                             LastCall'.event.val.order.order.price>>]_vars

\* C30: an Ask was opened below the best bid: it rests among the asks, in the
\* deque of its price
W30_AskBelowBestBidAmongAsks ==
    /\ trail # <<>>
    /\ LastCall.kind = "Open"
    /\ LastCall.res = Ok
    /\ LastCall.event.val.order.tag = "Ask"
    /\ bids # <<>>
    /\ LastCall.event.val.order.order.price < best_bid(Self)
    /\ <<LastCall.id, LastCall.event.val.order.order.price>> \in OrdersOn(Self, "Sell")
    /\ <<LastCall.id, LastCall.event.val.order.order.price>> \notin OrdersOn(Self, "Buy")

\* the events whose call may fail with an error that is not Outlier: a Done or
\* a Change, or an Open of a price that is no number
FailingCandidates ==
    DoneEvents \cup ChangeEvents \cup {e \in OpenEvents : e.order.order.price = NaN}

\* the events given after a failure
LaterEvents ==
    {e \in ReceivedEvents \cup OpenEvents : e.order.otype = "Limit"}
        \cup DoneEvents \cup ChangeEvents

\* the parts of the book a call may act on, stats and ring left aside
BookOf(ob) == <<ob.last_sequence, ob.bids, ob.asks, ob.order_id_map, ob.outlier_filter>>

\* e2, given to the book r1 that a failed call left, is dispatched and applied:
\* it does what it does on the book ob of before the failed call
AppliedAfterFailure(ob, r1, e2) ==
    \E r2 \in {process(r1.ob, e2)} : \E r \in {process(ob, e2)} :
        /\ r2.res # "OutOfSequence"
        /\ r2.res = r.res
        /\ BookOf(r2.ob) = BookOf(r.ob)
        /\ (r2.res \in {Ok, "Outlier"} => r2.ob.last_sequence = sequence(e2))
        /\ (e2.kind = "Received" => r2.res = Ok)

\* what the calls of the candidates of sequence s that fail on ob, with an
\* error that is not Outlier, leave and give
FailuresAt(ob, s) ==
    {r1 \in {process(ob, e1) : e1 \in {e \in FailingCandidates : sequence(e) = s}} :
        r1.res \in ErrKinds \ {"Outlier"}}

\* C31: an event that fails with an error other than Outlier does not consume
\* its sequence number: after a failed event of sequence s, last_sequence is
\* as before, and an event of any sequence greater than last_sequence, also
\* one lower than or equal to s, is dispatched and applied.
C31_FailedEventKeepsSequence ==
    \A s \in Sequences_ :
        s > last_sequence =>
            \A r1 \in FailuresAt(Self, s) :
                /\ r1.ob.last_sequence = last_sequence
                /\ \A e2 \in LaterEvents :
                      (sequence(e2) > last_sequence /\ sequence(e2) <= s) =>
                          AppliedAfterFailure(Self, r1, e2)

\* C31: a Done of an id that is not in order_id_map was dispatched and
\* failed while orders rest in the book; its sequence is 2 or more, for
\* last_sequence is 1; and an Open of sequence 2 is then accepted
W31_OpenAppliedAfterFailedDone ==
    /\ result = "OrderNotFoundInMap"
    /\ calls > 1
    /\ bids # <<>>
    /\ last_sequence = 1
    /\ stats.val.events_not_processed >= 1
    /\ \E e2 \in OpenEvents :
          /\ sequence(e2) = 2
          /\ \E r2 \in {process(Self, e2)} :
                r2.res = Ok /\ r2.ob.last_sequence = 2

\* every entry of order_id_map names a side and a price at which a deque is
EntriesHaveDeques(ob) ==
    \A id \in DOMAIN ob.order_id_map :
        \E i \in DOMAIN side_vec(ob, ob.order_id_map[id].side) :
            side_vec(ob, ob.order_id_map[id].side)[i].price = ob.order_id_map[id].price

\* C32: no process call gives MissingOrderDeque: whenever order_id_map maps an
\* id to (side, price), a deque of that price is on that side, also after
\* duplicate Opens of an id and after any Done, and so no event given next
\* gives MissingOrderDeque either.
C32_NeverMissingOrderDeque ==
    /\ result # "MissingOrderDeque"
    /\ EntriesHaveDeques(Self)
    /\ \A e \in DoneEvents \cup ChangeEvents :
          \E r \in {process(Self, e)} :
              r.res # "MissingOrderDeque" /\ EntriesHaveDeques(r.ob)

\* C32: an id was opened at two prices, and a Done of it empties and deletes
\* one of the two deques while its other copy rests on
W32_DoneDeletesDequeAfterDuplicateOpen ==
    /\ reopened
    /\ result = Ok
    /\ num_bid_levels(Self) + num_ask_levels(Self) = 2
    /\ \E e \in DoneEvents :
          /\ Cardinality(PlacesOf(Self, e.id)) = 2
          /\ \E r \in {process(Self, e)} :
                /\ r.res = Ok
                /\ num_bid_levels(r.ob) + num_ask_levels(r.ob) = 1
                /\ PlacesOf(r.ob, e.id) # {}
                /\ e.id \notin DOMAIN r.ob.order_id_map

\* C33: in event streams in which no id is opened more than once, no process
\* call gives OrderNotFoundInDeque: every Change or Done of a sequence greater
\* than last_sequence on an id that is a key of order_id_map succeeds,
\* whatever the number of price levels of the side and of orders in the level.
C33_NeverOrderNotFoundInDeque ==
    /\ result # "OrderNotFoundInDeque"
    /\ \A e \in DoneEvents \cup ChangeEvents :
          (sequence(e) > last_sequence /\ e.id \in DOMAIN order_id_map) =>
              process(Self, e).res = Ok

\* the iterator as its first next() that gives None leaves it
RECURSIVE Iter_exhaust(_)
Iter_exhaust(it) ==
    LET n == Iter_next(it)
    IN  IF n.item.some THEN Iter_exhaust(n.it) ELSE n.it

\* the orders of the deques of v, deque by deque, each deque front first
RECURSIVE OrdersOf(_)
OrdersOf(v) == IF v = <<>> THEN <<>> ELSE Head(v).deque \o OrdersOf(Tail(v))

\* the orders that were yielded, without tag and type
Untagged(items) == [i \in DOMAIN items |-> items[i].order]

\* C34: in every reachable state of the book (both sides empty, only bids,
\* only asks, both non-empty) calling next() on iter() again and again comes
\* to an end: it yields bid_count() + ask_count() orders, every resting order
\* once, and then gives None on every further call.
C34_IterYieldsEachOrderOnceThenNone ==
    /\ \E items \in {Iter_collect(iter(Self))} :
          /\ Len(items) = bid_count(Self) + ask_count(Self)
          /\ Untagged(items) = OrdersOf(Reversed(bids)) \o OrdersOf(asks)
    /\ \E done \in {Iter_exhaust(iter(Self))} :
          /\ Iter_next(done) = [it |-> done, item |-> None]
          /\ Iter_collect(done) = <<>>

\* C34: a book without bids and with asks at two prices
W34_AsksAtTwoPricesNoBids ==
    /\ bids = <<>>
    /\ Len(asks) = 2
    /\ len(Self) = ask_count(Self)
    /\ ask_count(Self) >= 2

\* the calls of the trail that were an Open rejected with Outlier
RejectedOpens == {n \in DOMAIN trail : trail[n].kind = "Open" /\ trail[n].res = "Outlier"}

\* C35: with the outlier filter enabled, after any sequence of process calls
\* the filter's outliers_encountered equals the number of Open events that
\* were rejected with Outlier.
C35_CounterCountsRejectedOpens ==
    outlier_filter.some =>
        outlier_filter.val.outliers_encountered = Cardinality(RejectedOpens)

====
